---- MODULE Spec2Model ----
(***************************************************************************)
(* Model of the LRC parser and locator (utils/lrc-parser: parseLrc and     *)
(* getCurrentLine).                                                        *)
(*                                                                         *)
(* Strings are sequences of one-character strings.  Times are held in      *)
(* integer milliseconds: a tag carries at most three fractional digits, so *)
(* minutes*60 + seconds is an exact multiple of 0.001 s and the order of   *)
(* the doubles the code computes is the order of these integers.           *)
(* Other numbers (style values) are mant * 10^exp, normalised.             *)
(***************************************************************************)
EXTENDS Integers, Sequences, FiniteSets, TLC

\* ------------------------------------------------------------------ bounds
MaxLines == 3      \* lines per timed text
MaxPairs == 2      \* segments per style annotation
MaxSlack == 1      \* query instants lie within MaxSlack ms of a start time
MaxCalls == 3      \* calls of parseLrc whose results are held at once

\* ------------------------------------------------------- character classes
Digits == {"0", "1", "2", "3", "4", "5", "6", "7", "8", "9"}

IsDigit(c) == c \in Digits

DigitVal(c) ==
  CASE c = "0" -> 0 [] c = "1" -> 1 [] c = "2" -> 2 [] c = "3" -> 3
    [] c = "4" -> 4 [] c = "5" -> 5 [] c = "6" -> 6 [] c = "7" -> 7
    [] c = "8" -> 8 [] c = "9" -> 9

\* White space and line terminators removed by String.prototype.trim
IsWhite(c) == c \in {" ", "\t", "\n", "\r"}

\* Line terminators, which '.' in a regular expression does not match
IsLineTerminator(c) == c \in {"\n", "\r"}

\* ----------------------------------------------------------- string helpers
RECURSIVE indexOf(_, _, _)
\* position of the first occurrence of character c in s at or after from; 0 if none
indexOf(s, c, from) ==
  IF from > Len(s) THEN 0
  ELSE IF s[from] = c THEN from
  ELSE indexOf(s, c, from + 1)

RECURSIVE split_anyBreak(_, _)
\* split that also breaks a text at carriage returns
split_anyBreak(s, sep) ==
  LET i == indexOf(s, sep, 1)
      j == IF sep = "\n" THEN indexOf(s, "\r", 1) ELSE 0
      k == IF i = 0 THEN j ELSE IF j = 0 THEN i ELSE IF i < j THEN i ELSE j
  IN  IF k = 0 THEN <<s>>
      ELSE <<SubSeq(s, 1, k - 1)>> \o split_anyBreak(SubSeq(s, k + 1, Len(s)), sep)

RECURSIVE split(_, _)
\* String.prototype.split with a one-character separator
split(s, sep) ==
  LET i == indexOf(s, sep, 1) IN
  IF i = 0 THEN <<s>>
  ELSE <<SubSeq(s, 1, i - 1)>> \o split(SubSeq(s, i + 1, Len(s)), sep)

RECURSIVE trimStart(_)
trimStart(s) ==
  IF s # <<>> /\ IsWhite(s[1]) THEN trimStart(Tail(s)) ELSE s

RECURSIVE trimEnd(_)
trimEnd(s) ==
  IF s # <<>> /\ IsWhite(s[Len(s)]) THEN trimEnd(SubSeq(s, 1, Len(s) - 1)) ELSE s

\* String.prototype.trim
trim(s) == trimEnd(trimStart(s))

\* character of s at position i, "" beyond either end (an out-of-range read)
charAt(s, i) == IF i >= 1 /\ i <= Len(s) THEN s[i] ELSE ""

RECURSIVE digitRun(_, _)
\* number of consecutive digits of s starting at position i
digitRun(s, i) == IF IsDigit(charAt(s, i)) THEN 1 + digitRun(s, i + 1) ELSE 0

RECURSIVE digitsValue(_, _, _)
\* value of the n digits of s starting at position i, read in base ten
digitsValue(s, i, n) ==
  IF n = 0 THEN 0
  ELSE 10 * digitsValue(s, i, n - 1) + DigitVal(s[i + n - 1])

RECURSIVE Pow10(_)
Pow10(n) == IF n = 0 THEN 1 ELSE 10 * Pow10(n - 1)

\* ------------------------------------------------------------------ numbers
\* A number is NaN, an infinity, or mant * 10^exp with mant not a multiple of
\* ten (zero is 0 * 10^0).
NaN == [kind |-> "NaN", mant |-> 0, exp |-> 0]

Infinity(sign) == [kind |-> "inf", mant |-> sign, exp |-> 0]

RECURSIVE Num(_, _)
Num(mant, exp) ==
  IF mant = 0 THEN [kind |-> "num", mant |-> 0, exp |-> 0]
  ELSE IF mant % 10 = 0 THEN Num(mant \div 10, exp + 1)
  ELSE [kind |-> "num", mant |-> mant, exp |-> exp]

isNaN(n) == n.kind = "NaN"

\* parseInt(s, 10): optional white space and sign, then the longest run of digits
parseInt(s) ==
  LET t    == trimStart(s)
      sgn  == IF charAt(t, 1) = "-" THEN -1 ELSE 1
      p    == IF charAt(t, 1) \in {"+", "-"} THEN 2 ELSE 1
      n    == digitRun(t, p)
  IN  IF n = 0 THEN NaN ELSE Num(sgn * digitsValue(t, p, n), 0)

\* parseFloat(s): optional white space and sign, then the longest prefix that
\* is a decimal literal (Infinity | digits [. digits] [exponent] | . digits
\* [exponent]); whatever follows the prefix is ignored; NaN if there is no prefix
parseFloat(s) ==
  LET t     == trimStart(s)
      sgn   == IF charAt(t, 1) = "-" THEN -1 ELSE 1
      p     == IF charAt(t, 1) \in {"+", "-"} THEN 2 ELSE 1
      n1    == digitRun(t, p)
      dot   == charAt(t, p + n1) = "."
      n2    == IF dot THEN digitRun(t, p + n1 + 1) ELSE 0
      q     == p + n1 + (IF dot THEN 1 + n2 ELSE 0)
      hasE  == charAt(t, q) \in {"e", "E"}
      es    == IF charAt(t, q + 1) = "-" THEN -1 ELSE 1
      ep    == IF charAt(t, q + 1) \in {"+", "-"} THEN q + 2 ELSE q + 1
      en    == IF hasE THEN digitRun(t, ep) ELSE 0
      e     == IF en = 0 THEN 0 ELSE es * digitsValue(t, ep, en)
      mant  == digitsValue(t, p, n1) * Pow10(n2)
               + (IF n2 = 0 THEN 0 ELSE digitsValue(t, p + n1 + 1, n2))
  IN  IF Len(t) >= p + 7 /\ SubSeq(t, p, p + 7) = <<"I", "n", "f", "i", "n", "i", "t", "y">>
        THEN Infinity(sgn)
      ELSE IF n1 = 0 /\ n2 = 0 THEN NaN
      ELSE Num(sgn * mant, e - n2)

\* a finite number with at most three decimals, in milliseconds
toMillis(n) == n.mant * Pow10(n.exp + 3)

\* ------------------------------------------------------ regular expressions
\* the result of String.prototype.match: null, or the position and length of
\* the match with its capture groups
NullMatch == [isNull |-> TRUE, index |-> 0, length |-> 0, g1 |-> <<>>, g2 |-> <<>>]

\* the tag pattern with one to three minute digits and one to three
\* fractional digits
timeRegexAt_loose(s, i) ==
  LET m == digitRun(s, i + 1)
      f == digitRun(s, i + m + 5)
  IN  IF /\ charAt(s, i) = "[" /\ m \in 1..3
         /\ charAt(s, i + m + 1) = ":"
         /\ IsDigit(charAt(s, i + m + 2)) /\ IsDigit(charAt(s, i + m + 3))
      THEN IF charAt(s, i + m + 4) = "]" THEN m + 5
           ELSE IF /\ charAt(s, i + m + 4) = "." /\ f \in 1..3
                   /\ charAt(s, i + m + 5 + f) = "]"
                THEN m + 6 + f
                ELSE 0
      ELSE 0

\* timeRegex /\[(\d{2}):(\d{2}(?:\.\d{2,3})?)\]/ tried at position i: the
\* length of the match, 0 if it does not match there
timeRegexAt(s, i) ==
  IF /\ charAt(s, i) = "["
     /\ IsDigit(charAt(s, i + 1)) /\ IsDigit(charAt(s, i + 2))
     /\ charAt(s, i + 3) = ":"
     /\ IsDigit(charAt(s, i + 4)) /\ IsDigit(charAt(s, i + 5))
  THEN IF charAt(s, i + 6) = "]" THEN 7
       ELSE IF /\ charAt(s, i + 6) = "."
               /\ IsDigit(charAt(s, i + 7)) /\ IsDigit(charAt(s, i + 8))
            THEN IF charAt(s, i + 9) = "]" THEN 10
                 ELSE IF IsDigit(charAt(s, i + 9)) /\ charAt(s, i + 10) = "]" THEN 11
                 ELSE 0
            ELSE 0
  ELSE 0

RECURSIVE timeRegexFrom(_, _)
timeRegexFrom(s, i) ==
  IF i > Len(s) THEN NullMatch
  ELSE LET n == timeRegexAt(s, i) IN
       IF n > 0
       THEN [isNull |-> FALSE, index |-> i, length |-> n,
             g1 |-> SubSeq(s, i + 1, i + 2), g2 |-> SubSeq(s, i + 4, i + n - 2)]
       ELSE timeRegexFrom(s, i + 1)

\* line.match(timeRegex): the leftmost match
timeRegex(s) == timeRegexFrom(s, 1)

RECURSIVE lazyClose(_, _)
\* /(.*?)\}/ continued from position j: the position of the closing brace,
\* 0 if a line terminator or the end of the string comes first
lazyClose(s, j) ==
  IF j > Len(s) THEN 0
  ELSE IF s[j] = "}" THEN j
  ELSE IF IsLineTerminator(s[j]) THEN 0
  ELSE lazyClose(s, j + 1)

RECURSIVE styleRegexFrom(_, _)
styleRegexFrom(s, i) ==
  IF i > Len(s) THEN NullMatch
  ELSE LET j == IF s[i] = "{" THEN lazyClose(s, i + 1) ELSE 0 IN
       IF j > 0
       THEN [isNull |-> FALSE, index |-> i, length |-> j - i + 1,
             g1 |-> SubSeq(s, i + 1, j - 1), g2 |-> <<>>]
       ELSE styleRegexFrom(s, i + 1)

\* text.match(styleRegex) with styleRegex /\{(.*?)\}/: the leftmost match
styleRegex(s) == styleRegexFrom(s, 1)

\* s.replace(regex, '') for a regex without the g flag: the first match removed
replaceFirst(s, m) ==
  IF m.isNull THEN s
  ELSE SubSeq(s, 1, m.index - 1) \o SubSeq(s, m.index + m.length, Len(s))

\* ------------------------------------------------------------------ parseLrc
\* a style value: string | number
StringValue(str) == [type |-> "string", num |-> NaN, str |-> str]

NumberValue(num) == [type |-> "number", num |-> num, str |-> <<>>]

\* style?: undefined, or a mapping from keys to values
undefined == [present |-> FALSE, map |-> <<>>]

\* a style that stays undefined where style = {} is assigned
emptyStyle_undefined == [present |-> FALSE, map |-> <<>>]

\* style = {}
emptyStyle == [present |-> TRUE, map |-> <<>>]

\* an assignment that keeps the value a key already has
styleSet_keepFirst(style, key, v) ==
  IF key \in DOMAIN style.map THEN style
  ELSE [style EXCEPT !.map = [k \in DOMAIN style.map \cup {key} |->
                                IF k = key THEN v ELSE style.map[k]]]

\* style![key] = v
styleSet(style, key, v) ==
  [style EXCEPT !.map = [k \in DOMAIN style.map \cup {key} |->
                           IF k = key THEN v ELSE style.map[k]]]

\* isNaN(numVal) ? val : numVal, with numVal = parseFloat(val)
coerce(val) ==
  LET numVal == parseFloat(val) IN
  IF isNaN(numVal) THEN StringValue(val) ELSE NumberValue(numVal)

\* const [key, val] = pair.split(':').map(s => s.trim()): the first two parts;
\* val is undefined (hasVal false) when the pair holds no colon
pairKey(pair) == trim(split(pair, ":")[1])

pairHasVal(pair) == Len(split(pair, ":")) >= 2

pairVal(pair) == trim(split(pair, ":")[2])

\* the callback with the guard if (key): a segment without a value is stored
parsePair_keyOnly(style, pair) ==
  IF pairKey(pair) # <<>>
  THEN styleSet(style, pairKey(pair),
                IF pairHasVal(pair) THEN coerce(pairVal(pair)) ELSE StringValue(<<>>))
  ELSE style

\* the body of the forEach callback: if (key && val) style[key] = ...
parsePair(style, pair) ==
  IF pairKey(pair) # <<>> /\ pairHasVal(pair) /\ pairVal(pair) # <<>>
  THEN styleSet(style, pairKey(pair), coerce(pairVal(pair)))
  ELSE style

RECURSIVE forEachPair(_, _)
\* styleContent.split(',').forEach(...), left to right
forEachPair(pairs, style) ==
  IF pairs = <<>> THEN style
  ELSE forEachPair(Tail(pairs), parsePair(style, Head(pairs)))

parseStyle(styleContent) == forEachPair(split(styleContent, ","), emptyStyle)

\* the seconds less the minutes
totalSeconds_minus(match) ==
  toMillis(parseFloat(match.g2)) - toMillis(parseInt(match.g1)) * 60

\* the seconds read with parseInt, which stops at the decimal point
totalSeconds_int(match) ==
  toMillis(parseInt(match.g1)) * 60 + toMillis(parseInt(match.g2))

\* minutes * 60 + seconds, in milliseconds
totalSeconds(match) ==
  toMillis(parseInt(match.g1)) * 60 + toMillis(parseFloat(match.g2))

\* a guard that lets every match result through
truthy_always(match) == TRUE

\* if (match): a match result is truthy unless it is null
truthy(match) == ~match.isNull

\* the if-body pushing a record only when its text is not empty
pushLine_skipEmpty(acc, line, match) ==
  IF match.isNull THEN [acc EXCEPT !.threw = TRUE]
  ELSE LET text0      == trim(replaceFirst(line, match))
           styleMatch == styleRegex(text0)
           text       == IF truthy(styleMatch)
                           THEN trim(replaceFirst(text0, styleMatch))
                           ELSE text0
           style      == IF truthy(styleMatch)
                           THEN parseStyle(styleMatch.g1)
                           ELSE undefined
       IN  IF text = <<>> THEN acc
           ELSE [acc EXCEPT !.result =
                   Append(@, [lineTime |-> totalSeconds(match), text |-> text,
                              style |-> style])]

\* the if-body without the second trim, after the annotation is removed
pushLine_noRetrim(acc, line, match) ==
  IF match.isNull THEN [acc EXCEPT !.threw = TRUE]
  ELSE LET text0      == trim(replaceFirst(line, match))
           styleMatch == styleRegex(text0)
           text       == IF truthy(styleMatch)
                           THEN replaceFirst(text0, styleMatch)
                           ELSE text0
           style      == IF truthy(styleMatch)
                           THEN parseStyle(styleMatch.g1)
                           ELSE undefined
       IN  [acc EXCEPT !.result =
              Append(@, [lineTime |-> totalSeconds(match), text |-> text,
                         style |-> style])]

\* the body of `if (match) { ... }`: builds the record and pushes it.  Reading
\* match[1] of a null match raises a TypeError, which ends parseLrc.
pushLine(acc, line, match) ==
  IF match.isNull THEN [acc EXCEPT !.threw = TRUE]
  ELSE LET text0      == trim(replaceFirst(line, match))
           styleMatch == styleRegex(text0)
           text       == IF truthy(styleMatch)
                           THEN trim(replaceFirst(text0, styleMatch))
                           ELSE text0
           style      == IF truthy(styleMatch)
                           THEN parseStyle(styleMatch.g1)
                           ELSE undefined
       IN  [acc EXCEPT !.result =
              Append(@, [lineTime |-> totalSeconds(match), text |-> text,
                         style |-> style])]

\* one iteration of `for (const line of lines)`
processLine(acc, line) ==
  LET match == timeRegex(line) IN
  IF truthy(match) THEN pushLine(acc, line, match) ELSE acc

RECURSIVE forEachLine(_, _)
forEachLine(ls, acc) ==
  IF ls = <<>> \/ acc.threw THEN acc
  ELSE forEachLine(Tail(ls), processLine(acc, Head(ls)))

\* the comparator (a, b) => a.lineTime - b.lineTime
compare(a, b) == a.lineTime - b.lineTime

RECURSIVE insert_before(_, _)
\* x placed before the elements that compare equal to it
insert_before(sorted, x) ==
  IF sorted = <<>> THEN <<x>>
  ELSE IF compare(Head(sorted), x) < 0
       THEN <<Head(sorted)>> \o insert_before(Tail(sorted), x)
       ELSE <<x>> \o sorted

RECURSIVE insert(_, _)
\* x placed after every element that does not compare greater than it
insert(sorted, x) ==
  IF sorted = <<>> THEN <<x>>
  ELSE IF compare(Head(sorted), x) <= 0
       THEN <<Head(sorted)>> \o insert(Tail(sorted), x)
       ELSE <<x>> \o sorted

\* the array left in push order
sort_none(arr) == arr

RECURSIVE sort(_)
\* Array.prototype.sort with the comparator above: a stable sort
sort(arr) ==
  IF arr = <<>> THEN <<>>
  ELSE insert(sort(SubSeq(arr, 1, Len(arr) - 1)), arr[Len(arr)])

\* parseLrc(lrcContent): threw tells whether an exception left the function,
\* value is the array it returned otherwise
parseLrc(content) ==
  LET acc == forEachLine(split(content, "\n"), [threw |-> FALSE, result |-> <<>>])
  IN  [threw |-> acc.threw,
       value |-> IF acc.threw THEN <<>> ELSE sort(acc.result)]

\* ------------------------------------------------------------ getCurrentLine
\* getCurrentLine returns one of the elements of lines, identified here by its
\* index, or null
null == 0

RECURSIVE scanBack(_, _, _)
\* for (let i = lines.length - 1; i >= 0; i--) if (currentTime >= lines[i].lineTime) return lines[i]
scanBack(ls, t, i) ==
  IF i < 1 THEN null
  ELSE IF t >= ls[i].lineTime THEN i
  ELSE scanBack(ls, t, i - 1)

RECURSIVE scanBack_gt(_, _, _)
scanBack_gt(ls, t, i) ==
  IF i < 1 THEN null
  ELSE IF t > ls[i].lineTime THEN i
  ELSE scanBack_gt(ls, t, i - 1)

\* the scan with a strict comparison
getCurrentLine_gt(ls, t) == scanBack_gt(ls, t, Len(ls))

RECURSIVE scanBack_skipFirst(_, _, _)
scanBack_skipFirst(ls, t, i) ==
  IF i < 2 THEN null
  ELSE IF t >= ls[i].lineTime THEN i
  ELSE scanBack_skipFirst(ls, t, i - 1)

\* the scan stopping one element short of the front (i > 0 for i >= 0)
getCurrentLine_skipFirst(ls, t) == scanBack_skipFirst(ls, t, Len(ls))

\* the first of the lines that share the start time of the one found
getCurrentLine_first(ls, t) ==
  LET i == scanBack(ls, t, Len(ls)) IN
  IF i = null THEN null
  ELSE CHOOSE j \in 1..i :
         /\ ls[j].lineTime = ls[i].lineTime
         /\ \A k \in 1..(j - 1) : ls[k].lineTime # ls[i].lineTime

getCurrentLine(ls, t) == scanBack(ls, t, Len(ls))

\* ------------------------------------------------- LyricVideo (host component)
\* let index = -1: no line is active
noIndex == -1

\* lines[index], with the zero-based index of the code
at(ls, index) == ls[index + 1]

RECURSIVE scanForward_gt(_, _, _, _)
scanForward_gt(ls, t, i, index) ==
  IF i >= Len(ls) THEN index
  ELSE IF t > at(ls, i).lineTime THEN scanForward_gt(ls, t, i + 1, i)
  ELSE index

\* the forward scan with a strict comparison
activeIndexOf_gt(ls, t) == scanForward_gt(ls, t, 0, noIndex)

\* the forward scan leaving the loop at its first hit
activeIndexOf_first(ls, t) ==
  IF Len(ls) > 0 /\ t >= at(ls, 0).lineTime THEN 0 ELSE noIndex

RECURSIVE scanForward(_, _, _, _)
\* for (let i = 0; i < lines.length; i++)
\*   if (currentTime >= lines[i].lineTime) index = i; else break;
scanForward(ls, t, i, index) ==
  IF i >= Len(ls) THEN index
  ELSE IF t >= at(ls, i).lineTime THEN scanForward(ls, t, i + 1, i)
  ELSE index

\* the forward scan with the last line active only for the 3 seconds of its
\* window
activeIndexOf_windowed(ls, t) ==
  LET index == scanForward(ls, t, 0, noIndex) IN
  IF index = Len(ls) - 1 /\ index >= 0 /\ t >= at(ls, index).lineTime + 3000
  THEN noIndex
  ELSE index

\* the activeIndex memo: the index of the active line, -1 if there is none
activeIndexOf(ls, t) == scanForward(ls, t, 0, noIndex)

\* the fallback length of the last line's window: startTime + 3 (seconds)
FallbackMillis == 3000

\* an end time that is always the fallback
endTime_fallback(ls, index) == at(ls, index).lineTime + 3000

\* const endTime = nextLine ? nextLine.lineTime : startTime + 3
endTime(ls, index) ==
  IF index + 1 < Len(ls)
  THEN at(ls, index + 1).lineTime
  ELSE at(ls, index).lineTime + FallbackMillis

\* the length of the fades: the input range [0, 0.5] (seconds)
FadeMillis == 500

\* the length of the instant cut: the input range [0, 0.001] (seconds)
CutMillis == 1

\* interpolate(input, inputRange, outputRange, {extrapolateRight: "clamp"}):
\* linear between the two points, extended to the left and clamped to the
\* right.  The value is returned times the length of inputRange, so that it
\* is an integer of the same sign.
interpolate(input, inputRange, outputRange) ==
  LET clamped == IF input > inputRange[2] THEN inputRange[2] ELSE input IN
  outputRange[1] * (inputRange[2] - inputRange[1])
    + (clamped - inputRange[1]) * (outputRange[2] - outputRange[1])

\* the texts cut at once: 'すべて' (su-be-te), '警告音' (kei-koku-on), '接近'
\* (setsu-kin), '破壊足音' (ha-kai-ashi-oto), 'ズンズン' (zu-n-zu-n); a
\* character outside ASCII is written as its reading
InstantCutTexts ==
  { <<"su", "be", "te">>, <<"kei", "koku", "on">>, <<"setsu", "kin">>,
    <<"ha", "kai", "ashi", "oto">>, <<"zu", "n", "zu", "n">> }

\* const isInstantCut = text === 'すべて' || [...].includes(text)
isInstantCut(text) == text \in InstantCutTexts

\* 'ゼロイチ' (ze-ro-i-chi), the text of the special intro
ZeroIchi == <<"ze", "ro", "i", "chi">>

\* a filter that also lets the line two before the active one through
considered_wide(index, activeIdx) ==
  ~(index < activeIdx - 2 \/ index > activeIdx)

\* if (index < activeIndex - 1 || index > activeIndex) return null
considered(index, activeIdx) ==
  ~(index < activeIdx - 1 \/ index > activeIdx)

\* a fade-out stretched over the 5 seconds of the zoom
fadeOut_slow(text, timeSinceEnd) ==
  interpolate(timeSinceEnd, <<0, 5000>>, <<1, 0>>)

\* animOpacity of a line that is not the current one
fadeOut(text, timeSinceEnd) ==
  IF isInstantCut(text)
  THEN interpolate(timeSinceEnd, <<0, CutMillis>>, <<1, 0>>)
  ELSE interpolate(timeSinceEnd, <<0, FadeMillis>>, <<1, 0>>)

\* animOpacity of the current line
fadeIn(timeSinceStart) == interpolate(timeSinceStart, <<0, FadeMillis>>, <<0, 1>>)

\* the lines.map callback for a line that passed the two early returns: the
\* relative times, the opacity, and whether an element is returned (the
\* special intro returns one whatever its opacity; otherwise
\* if (animOpacity <= 0) return null)
lineElement(ls, index, activeIdx, t) ==
  LET text           == at(ls, index).text
      isCurrent      == index = activeIdx
      timeSinceStart == t - at(ls, index).lineTime
      timeSinceEnd   == t - endTime(ls, index)
      animOpacity    == IF isCurrent THEN fadeIn(timeSinceStart)
                                     ELSE fadeOut(text, timeSinceEnd)
  IN  [index |-> index, isCurrent |-> isCurrent,
       timeSinceStart |-> timeSinceStart, timeSinceEnd |-> timeSinceEnd,
       animOpacity |-> animOpacity,
       rendered |-> (isCurrent /\ text = ZeroIchi) \/ ~(animOpacity <= 0)]

\* lines.map(...) of one frame, without the lines it returns null for before
\* computing an animation: if (index < activeIndex - 1 || ...) return null;
\* if (!text) return null
mapLines(ls, activeIdx, t) ==
  {lineElement(ls, index, activeIdx, t) :
     index \in {i \in 0..(Len(ls) - 1) :
                  considered(i, activeIdx) /\ at(ls, i).text # <<>>}}

\* -------------------------------------------------------------------- inputs
\* The texts handed to parseLrc.  parseLrc takes any string; these families
\* are built so that every branch of the parser is taken.

\* lines of a timed text: distinct, equal and out-of-order start times, a
\* metadata line, and a line with a carriage return and two tags
TimedLines ==
  { <<"[", "0", "0", ":", "0", "5", "]", "a">>   \* "[00:05]a"
  , <<"[", "0", "0", ":", "1", "0", "]", "b">>   \* "[00:10]b"
  , <<"[", "0", "0", ":", "1", "0", "]", "c">>   \* "[00:10]c"
  , <<"[", "0", "0", ":", "1", "5", "]", "d">>   \* "[00:15]d"
  , <<"[", "t", "i", ":", "x", "]">>   \* "[ti:x]"
  , <<"[", "0", "0", ":", "0", "5", "]", "e", "\r", "[", "0", "0", ":", "1", "5", "]", "f">>   \* "[00:05]e\r[00:15]f"
  }

\* the parts of a bracketed tag, well formed and not
Minutes ==
  { <<"1">>   \* "1"
  , <<"0", "1">>   \* "01"
  , <<"0", "0", "1">>   \* "001"
  , <<"0", "a">>   \* "0a"
  }


Seconds ==
  { <<"7">>   \* "7"
  , <<"0", "2">>   \* "02"
  , <<"0", "2", "2">>   \* "022"
  }


Fractions ==
  { <<>>   \* ""
  , <<".">>   \* "."
  , <<".", "5">>   \* ".5"
  , <<".", "5", "0">>   \* ".50"
  , <<".", "5", "0", "0">>   \* ".500"
  , <<".", "1", "2", "3", "4">>   \* ".1234"
  }


Openers ==
  { <<"[">>   \* "["
  , <<>>   \* ""
  }


Colons ==
  { <<":">>   \* ":"
  , <<";">>   \* ";"
  }


Closers ==
  { <<"]">>   \* "]"
  , <<>>   \* ""
  }

\* what precedes and follows the tag on its line
Prefixes ==
  { <<>>   \* ""
  , <<"a", "[">>   \* "a["
  }


Suffixes ==
  { <<>>   \* ""
  , <<" ", "b">>   \* " b"
  , <<"[", "0", "0", ":", "0", "7", "]", "c">>   \* "[00:07]c"
  }

\* keys and values of style segments
StyleKeys ==
  { <<" ", "k">>   \* " k"
  , <<"K">>   \* "K"
  , <<>>   \* ""
  }


SegmentValues ==
  { <<"1", "0", "0">>   \* "100"
  , <<"t", "r", "u", "e">>   \* "true"
  , <<"a", ":", "b">>   \* "a:b"
  , <<>>   \* ""
  }

\* values of a single-pair annotation {k:<value>}
StyleValues ==
  { <<"1", "0", "0">>   \* "100"
  , <<"1", ".", "5", "0">>   \* "1.50"
  , <<" ", "7", " ">>   \* " 7 "
  , <<"0">>   \* "0"
  , <<"t", "r", "u", "e">>   \* "true"
  , <<"d", "i", "a", "g">>   \* "diag"
  , <<"d", "r", "i", "f", "t">>   \* "drift"
  , <<"1", "2", "p", "x">>   \* "12px"
  , <<"1", ".", "5", "x">>   \* "1.5x"
  , <<"a", ":", "b">>   \* "a:b"
  , <<"3", ":", "4">>   \* "3:4"
  , <<"-", "2">>   \* "-2"
  , <<".", "5">>   \* ".5"
  , <<"5", ".">>   \* "5."
  , <<"1", "e", "3">>   \* "1e3"
  , <<"1", "e">>   \* "1e"
  , <<"e", "5">>   \* "e5"
  , <<"+", "3">>   \* "+3"
  , <<"-">>   \* "-"
  , <<"#", "f", "f", "f">>   \* "#fff"
  , <<"0", "x", "1", "F">>   \* "0x1F"
  , <<"1", ".", "2", ".", "3">>   \* "1.2.3"
  , <<"I", "n", "f", "i", "n", "i", "t", "y">>   \* "Infinity"
  , <<"0", "0", "f", "3", "f", "f">>   \* "00f3ff"
  }

\* texts with empty input, unbalanced braces, several annotations, the
\* examples of the documentation
OddTexts ==
  { <<>>   \* ""
  , <<"\n">>   \* "\n"
  , <<"\n", "\n">>   \* "\n\n"
  , <<"{">>   \* "{"
  , <<"}">>   \* "}"
  , <<"[", "0", "0", ":", "0", "5", "]">>   \* "[00:05]"
  , <<"[", "0", "0", ":", "0", "5", "]", "{">>   \* "[00:05]{"
  , <<"[", "0", "0", ":", "0", "5", "]", "}">>   \* "[00:05]}"
  , <<"[", "0", "0", ":", "0", "5", "]", "}", "{">>   \* "[00:05]}{"
  , <<"[", "0", "0", ":", "0", "5", "]", "{", "}">>   \* "[00:05]{}"
  , <<"[", "0", "0", ":", "0", "5", "]", "{", "c", "o", "l", "o", "r", "}">>   \* "[00:05]{color}"
  , <<"[", "0", "0", ":", "0", "5", "]", "{", "k", ":", "1", "}", "{", "j", ":", "2", "}">>   \* "[00:05]{k:1}{j:2}"
  , <<"[", "0", "0", ":", "0", "5", "]", "a", "{", "k", ":", "1", "\r", "j", ":", "2", "}", "b">>   \* "[00:05]a{k:1\rj:2}b"
  , <<"{", "k", ":", "1", "}", "[", "0", "0", ":", "0", "5", "]", "x">>   \* "{k:1}[00:05]x"
  , <<"[", "0", "0", ":", "0", "5", "]", " ", "x", " ", "{", "s", "i", "z", "e", ":", "1", "0", "0", ",", " ", "f", "o", "n", "t", ":", "g", "o", "t", "h", "i", "c", "}">>   \* "[00:05] x {size:100, font:gothic}"
  , <<"[", "0", "0", ":", "1", "0", ".", "0", "0", "0", "]">>   \* "[00:10.000]"
  , <<"[", "0", "1", ":", "0", "2", ".", "5", "0", "0", "]">>   \* "[01:02.500]"
  , <<"[", "0", "1", ":", "0", "2", ".", "5", "0", "]">>   \* "[01:02.50]"
  , <<"[", "0", "0", ":", "0", "5", "]", "a", "\r", "\n", "[", "0", "0", ":", "1", "0", "]", "b", "\r", "\n">>   \* "[00:05]a\r\n[00:10]b\r\n"
  , <<"{", "[", "0", "0", ":", "0", "5", "]", "}">>   \* "{[00:05]}"
  , <<"[", "0", "0", ":", "0", "5", "]", "{", "{", "k", ":", "1", "}", "}">>   \* "[00:05]{{k:1}}"
  , <<"[", "0", "0", ":", "0", "5", "]", "{", ":", "}">>   \* "[00:05]{:}"
  , <<"[", "0", "0", ":", "0", "5", "]", "{", ",", "}">>   \* "[00:05]{,}"
  , <<"[", "0", "0", ":", "0", "5", "]", "{", "k", ":", "1", ",", "}">>   \* "[00:05]{k:1,}"
  , <<"[", "0", "0", ":", "0", "5", "]", " ", "a", " ", "{", " ", "b">>   \* "[00:05] a { b"
  , <<"[", "1", ":", "0", "2", "]">>   \* "[1:02]"
  , <<"[", "0", "0", ":", "7", "]">>   \* "[00:7]"
  , <<"[", "0", "0", ":", "1", "0", ".", "5", "]">>   \* "[00:10.5]"
  , <<"[", "0", "0", ":", "1", "0", ".", "1", "2", "3", "4", "]">>   \* "[00:10.1234]"
  , <<"[", "t", "i", ":", "t", "i", "t", "l", "e", "]">>   \* "[ti:title]"
  , <<"[", "0", "0", ":", "1", "5", "]", "\n", "[", "0", "0", ":", "1", "0", "]", "\n", "[", "0", "0", ":", "0", "5", "]">>   \* "[00:15]\n[00:10]\n[00:05]"
  , <<"[", "0", "0", ":", "0", "0", "]", "z">>   \* "[00:00]z"
  }

TimeTag == <<"[", "0", "0", ":", "0", "5", "]">>

RECURSIVE join(_, _)
\* the elements of a sequence of strings joined with a separator
join(strs, sep) ==
  IF strs = <<>> THEN <<>>
  ELSE IF Len(strs) = 1 THEN strs[1]
  ELSE strs[1] \o sep \o join(Tail(strs), sep)

SeqsUpTo(S, n) == UNION {[1..k -> S] : k \in 0..n}

\* up to MaxLines lines, in any order
TimedTexts == {join(ls, <<"\n">>) : ls \in SeqsUpTo(TimedLines, MaxLines)}

\* one line carrying one bracketed tag of any form
TagTexts ==
  {pre \o o \o m \o c \o sc \o f \o cl \o suf :
     pre \in Prefixes, o \in Openers, m \in Minutes, c \in Colons,
     sc \in Seconds, f \in Fractions, cl \in Closers, suf \in Suffixes}

Segments ==
  {k \o <<":">> \o v : k \in StyleKeys, v \in SegmentValues} \cup StyleKeys

\* one tagged line with an annotation of up to MaxPairs segments
StyledTexts ==
  {TimeTag \o <<"a", " ", "{">> \o join(segs, <<",">>) \o <<"}">> :
     segs \in SeqsUpTo(Segments, MaxPairs)}

\* one tagged line with the annotation {k:<value>}
ValueTexts ==
  {TimeTag \o <<"{", "k", ":">> \o v \o <<"}">> : v \in StyleValues}

Texts == TimedTexts \cup TagTexts \cup StyledTexts \cup ValueTexts \cup OddTexts

\* ------------------------------------------------------------- state machine
VARIABLES
  pc,           \* "idle" before parseLrc is called, "parsed" after it returned,
                \* "queried" after a call of getCurrentLine, "rendered" after
                \* the host rendered a frame
  lrcContent,   \* the text handed to parseLrc
  threw,        \* whether parseLrc raised an exception
  lines,        \* the array parseLrc returned
  currentTime,  \* the time handed to getCurrentLine, in milliseconds
  current,      \* what getCurrentLine returned: an index of lines, or null
  activeIndex,  \* the host's activeIndex for the frame at currentTime
  calls,        \* the calls of parseLrc whose results are still held, in call
                \* order: the text, the array as it was returned, and the
                \* array as it is now
  loop,         \* the loops of a call followed step by step: the lines still
                \* to process, the index of the scan, and the iterations
                \* counted
  result,       \* const result: LrcLine[] = [] of the call followed, with the
                \* calls of the forEach callback counted
  invocations,  \* the invocations in progress at once, each with its own
                \* arguments and local variables
  host,         \* the mounted LyricVideo: its props initialContent and lrcSrc,
                \* the handle of delayRender, the effect, the fetch and the
                \* state fetchedContent
  shown         \* the lines the frame's lines.map callback computed an
                \* animation for, each with its relative times, its opacity
                \* and whether an element was returned for it

vars == <<pc, lrcContent, threw, lines, currentTime, current, activeIndex, calls, loop, result,
          invocations, host, shown>>

\* no call is being followed
NoLoop == [todo |-> <<>>, i |-> 0, lineIters |-> 0, scanIters |-> 0]

\* nothing pushed
NoResult == [threw |-> FALSE, result |-> <<>>, segIters |-> 0]

\* the invocations that may be in progress at once: two calls of
\* getCurrentLine on one sequence and a call of parseLrc on another text
Queries == {"q1", "q2"}

Parsers == {"p1"}

\* an invocation not yet made
NoCall ==
  [fn |-> "none", state |-> "idle", t |-> 0, i |-> 0, found |-> null,
   text |-> <<>>, todo |-> <<>>, acc |-> [threw |-> FALSE, result |-> <<>>],
   returned |-> <<>>]

\* an optional string that is undefined or null
absent == [present |-> FALSE, str |-> <<>>]

\* an optional string that holds str
given(str) == [present |-> TRUE, str |-> str]

\* no component is mounted
NoHost ==
  [mounted |-> FALSE, initialContent |-> absent, lrcSrc |-> absent,
   handle |-> "none", effect |-> "none", fetch |-> "none",
   fetchedContent |-> absent]

Init ==
  /\ pc = "idle"
  /\ lrcContent = <<>>
  /\ threw = FALSE
  /\ lines = <<>>
  /\ currentTime = 0
  /\ current = null
  /\ activeIndex = noIndex
  /\ calls = <<>>
  /\ loop = NoLoop
  /\ result = NoResult
  /\ invocations = [k \in Queries \cup Parsers |-> NoCall]
  /\ host = NoHost
  /\ shown = {}

\* const lines = parseLrc(content)
Parse ==
  \E text \in Texts :
    /\ pc = "idle"
    /\ pc' = "parsed"
    /\ lrcContent' = text
    /\ threw' = parseLrc(text).threw
    /\ lines' = parseLrc(text).value
    /\ UNCHANGED <<currentTime, current, activeIndex, calls, loop, result, invocations, host, shown>>

\* the instants asked about: zero and the neighbourhood of every start time
QueryTimes(ls) ==
  {0} \cup {t \in {ls[i].lineTime + d : i \in DOMAIN ls, d \in -MaxSlack..MaxSlack} : t >= 0}

\* getCurrentLine(lines, currentTime)
Query ==
  \E t \in QueryTimes(lines) :
    /\ pc \in {"parsed", "queried"}
    /\ ~threw
    /\ pc' = "queried"
    /\ currentTime' = t
    /\ current' = getCurrentLine(lines, t)
    /\ UNCHANGED <<lrcContent, threw, lines, activeIndex, calls, loop, result, invocations, host, shown>>

\* the host renders the frame at time t: currentTime = frame / fps and the
\* activeIndex memo is recomputed
Render ==
  \E t \in QueryTimes(lines) :
    /\ pc \in {"parsed", "rendered"}
    /\ ~threw
    /\ pc' = "rendered"
    /\ currentTime' = t
    /\ activeIndex' = activeIndexOf(lines, t)
    /\ UNCHANGED <<lrcContent, threw, lines, current, calls, loop, result, invocations, host, shown>>

\* the results are dropped and another text is taken
Reset ==
  /\ pc # "idle"
  /\ pc' = "idle"
  /\ lrcContent' = <<>>
  /\ threw' = FALSE
  /\ lines' = <<>>
  /\ currentTime' = 0
  /\ current' = null
  /\ activeIndex' = noIndex
  /\ calls' = <<>>
  /\ loop' = NoLoop
  /\ result' = NoResult
  /\ invocations' = [k \in Queries \cup Parsers |-> NoCall]
  /\ host' = NoHost
  /\ shown' = {}

Next == Parse \/ Query \/ Render \/ Reset

Spec == Init /\ [][Next]_vars

\* the texts of programs that call parseLrc several times
CallTexts ==
  { <<>>   \* ""
  , <<"[", "0", "0", ":", "0", "5", "]", "a">>   \* "[00:05]a"
  , <<"[", "0", "0", ":", "1", "0", "]", "b", "\n", "[", "0", "0", ":", "0", "5", "]", "a">>   \* "[00:10]b\n[00:05]a"
  , <<"[", "0", "0", ":", "1", "0", "]", "c", " ", "{", "k", ":", "1", "}", "\n", "[", "t", "i", ":", "x", "]">>   \* "[00:10]c {k:1}\n[ti:x]"
  , <<"[", "0", "0", ":", "0", "5", "]", "d", "\n", "[", "0", "0", ":", "0", "5", "]", "e">>   \* "[00:05]d\n[00:05]e"
  , <<"[", "0", "0", ":", "1", "5", "]">>   \* "[00:15]"
  }

\* a call of parseLrc with a result array shared between the calls: the
\* records are pushed onto the array of the earlier calls, which is sorted
\* and returned again
callParse_shared(held, text) ==
  LET prev == IF held = <<>> THEN <<>> ELSE held[Len(held)].now
      acc  == forEachLine(split(text, "\n"), [threw |-> FALSE, result |-> prev])
      v    == sort(acc.result)
  IN  [k \in 1..(Len(held) + 1) |->
         IF k <= Len(held) THEN [held[k] EXCEPT !.now = v]
         ELSE [text |-> text, returned |-> v, now |-> v]]

\* a call of parseLrc while the arrays of earlier calls are held: the result
\* is a new array (const result: LrcLine[] = []) of new records
callParse(held, text) ==
  Append(held, [text |-> text, returned |-> parseLrc(text).value,
                now |-> parseLrc(text).value])

\* parseLrc is called again, the earlier results being kept
ParseCall ==
  \E text \in CallTexts :
    /\ Len(calls) < MaxCalls
    /\ pc' = "parsed"
    /\ lrcContent' = text
    /\ threw' = parseLrc(text).threw
    /\ calls' = callParse(calls, text)
    /\ lines' = calls'[Len(calls')].now
    /\ UNCHANGED <<currentTime, current, activeIndex, loop, result, invocations, host, shown>>

\* getCurrentLine is called on one of the arrays held; it only reads it
QueryCall ==
  \E k \in DOMAIN calls :
    \E t \in QueryTimes(calls[k].now) :
      /\ ~threw
      /\ pc' = "queried"
      /\ lrcContent' = calls[k].text
      /\ lines' = calls[k].now
      /\ currentTime' = t
      /\ current' = getCurrentLine(calls[k].now, t)
      /\ UNCHANGED <<threw, activeIndex, calls, loop, result, invocations, host, shown>>

NextCalls == ParseCall \/ QueryCall \/ Reset

\* several calls of parseLrc and getCurrentLine in one program
SpecCalls == Init /\ [][NextCalls]_vars

\* lines of the texts whose parse is followed step by step
StepLines ==
  { <<"[", "0", "0", ":", "0", "5", "]", "a">>   \* "[00:05]a"
  , <<"[", "0", "0", ":", "1", "0", "]", "b", " ", "{", "k", ":", "1", ",", " ", "j", ":", "2", "}">>   \* "[00:10]b {k:1, j:2}"
  , <<"[", "t", "i", ":", "x", "]">>   \* "[ti:x]"
  }

StepTexts ==
  OddTexts \cup {join(ls, <<"\n">>) : ls \in SeqsUpTo(StepLines, MaxLines)}

\* the number of times the forEach callback runs in the iteration for a line:
\* once per element of styleContent.split(','), if the line has tag and style
callbacksFor(line) ==
  LET match      == timeRegex(line)
      styleMatch == styleRegex(trim(replaceFirst(line, match)))
  IN  IF truthy(match) /\ truthy(styleMatch)
      THEN Len(split(styleMatch.g1, ","))
      ELSE 0

\* i-- that leaves i as it is
scanNext_stuck(i) == i

\* i-- of the scan of getCurrentLine
scanNext(i) == i - 1

\* parseLrc is entered: const lines = lrcContent.split('\n'); const result = []
StartParse ==
  \E text \in StepTexts :
    /\ pc = "idle"
    /\ pc' = "parsing"
    /\ lrcContent' = text
    /\ loop' = [NoLoop EXCEPT !.todo = split(text, "\n")]
    /\ result' = NoResult
    /\ UNCHANGED <<threw, lines, currentTime, current, activeIndex, calls, invocations, host, shown>>

\* for (const line of lines) takes the next line
LineAdvance ==
  /\ pc = "parsing"
  /\ loop.todo # <<>>
  /\ loop' = [loop EXCEPT !.todo = Tail(@), !.lineIters = @ + 1]

\* one iteration of for (const line of lines)
LineStep ==
  /\ LineAdvance
  /\ result' = [processLine(result, Head(loop.todo))
                  EXCEPT !.segIters = @ + callbacksFor(Head(loop.todo))]
  /\ UNCHANGED <<pc, lrcContent, threw, lines, currentTime, current, activeIndex, calls, invocations, host, shown>>

\* the loop is left: return result.sort(...)
FinishParse ==
  /\ pc = "parsing"
  /\ loop.todo = <<>>
  /\ pc' = "parsed"
  /\ threw' = result.threw
  /\ lines' = sort(result.result)
  /\ UNCHANGED <<lrcContent, currentTime, current, activeIndex, calls, loop, result, invocations, host, shown>>

\* getCurrentLine is entered: let i = lines.length - 1
StartScan ==
  \E t \in QueryTimes(lines) :
    /\ pc = "parsed"
    /\ ~threw
    /\ pc' = "scanning"
    /\ currentTime' = t
    /\ loop' = [loop EXCEPT !.i = Len(lines) - 1, !.scanIters = 0]
    /\ UNCHANGED <<lrcContent, threw, lines, current, activeIndex, calls, result, invocations, host, shown>>

\* the test i >= 0 and, if it holds, one iteration of the scan
ScanStep ==
  /\ pc = "scanning"
  /\ IF loop.i >= 0
     THEN IF currentTime >= at(lines, loop.i).lineTime
          THEN /\ pc' = "queried"
               /\ current' = loop.i + 1
               /\ loop' = [loop EXCEPT !.scanIters = @ + 1]
          ELSE /\ loop' = [loop EXCEPT !.i = scanNext(@), !.scanIters = @ + 1]
               /\ UNCHANGED <<pc, current>>
     ELSE /\ pc' = "queried"
          /\ current' = null
          /\ UNCHANGED loop
  /\ UNCHANGED <<lrcContent, threw, lines, currentTime, activeIndex, calls, result, invocations, host, shown>>

\* after getCurrentLine returned, the results are dropped
StepReset == pc = "queried" /\ Reset

NextSteps == StartParse \/ LineStep \/ FinishParse \/ StartScan \/ ScanStep \/ StepReset

\* the two functions followed loop iteration by loop iteration; a call that
\* has started runs to completion (JavaScript runs a synchronous function
\* without interruption): a loop that can take its next iteration takes it,
\* and a function that can return returns
SpecSteps ==
  /\ Init
  /\ [][NextSteps]_vars
  /\ WF_loop(LineAdvance) /\ WF_vars(FinishParse) /\ WF_vars(ScanStep)

\* an iteration of the scan with the index i kept in one place for all the
\* invocations: the decrement moves the index of every scan in progress
scanIteration_sharedIndex(invs, k, ls) ==
  LET c == invs[k] IN
  IF c.i >= 0
  THEN IF c.t >= at(ls, c.i).lineTime
       THEN [invs EXCEPT ![k].state = "returned", ![k].found = c.i + 1]
       ELSE [j \in DOMAIN invs |->
               IF invs[j].fn = "getCurrentLine" /\ invs[j].state = "running"
               THEN [invs[j] EXCEPT !.i = c.i - 1]
               ELSE invs[j]]
  ELSE [invs EXCEPT ![k].state = "returned", ![k].found = null]

\* invocation k of getCurrentLine tests i >= 0 and runs one iteration of its
\* scan: it reads the sequence ls and its own t and i, and writes its own i
scanIteration(invs, k, ls) ==
  LET c == invs[k] IN
  IF c.i >= 0
  THEN IF c.t >= at(ls, c.i).lineTime
       THEN [invs EXCEPT ![k].state = "returned", ![k].found = c.i + 1]
       ELSE [invs EXCEPT ![k].i = c.i - 1]
  ELSE [invs EXCEPT ![k].state = "returned", ![k].found = null]

\* invocation k of parseLrc runs one iteration of its line loop, or leaves
\* the loop and returns its own array sorted
parseIteration(invs, k) ==
  LET c == invs[k] IN
  IF c.todo # <<>>
  THEN [invs EXCEPT ![k].todo = Tail(c.todo),
                    ![k].acc = processLine(c.acc, Head(c.todo))]
  ELSE [invs EXCEPT ![k].state = "returned", ![k].returned = sort(c.acc.result)]

\* the one call of parseLrc that produces the sequence the queries share
Produce ==
  \E text \in CallTexts :
    /\ pc = "idle"
    /\ pc' = "parsed"
    /\ lrcContent' = text
    /\ threw' = parseLrc(text).threw
    /\ lines' = parseLrc(text).value
    /\ UNCHANGED <<currentTime, current, activeIndex, calls, loop, result, invocations, host, shown>>

\* getCurrentLine(lines, t) is entered: let i = lines.length - 1
BeginQuery ==
  \E k \in Queries, t \in QueryTimes(lines) :
    /\ pc = "parsed"
    /\ invocations[k].state = "idle"
    /\ invocations' = [invocations EXCEPT ![k] =
         [NoCall EXCEPT !.fn = "getCurrentLine", !.state = "running",
                        !.t = t, !.i = Len(lines) - 1]]
    /\ UNCHANGED <<pc, lrcContent, threw, lines, currentTime, current, activeIndex,
                   calls, loop, result, host, shown>>

QueryStep ==
  \E k \in Queries :
    /\ invocations[k].state = "running"
    /\ invocations' = scanIteration(invocations, k, lines)
    /\ UNCHANGED <<pc, lrcContent, threw, lines, currentTime, current, activeIndex,
                   calls, loop, result, host, shown>>

\* parseLrc(text) is entered: const lines = lrcContent.split('\n'); const result = []
BeginParse ==
  \E k \in Parsers, text \in CallTexts :
    /\ pc = "parsed"
    /\ invocations[k].state = "idle"
    /\ invocations' = [invocations EXCEPT ![k] =
         [NoCall EXCEPT !.fn = "parseLrc", !.state = "running",
                        !.text = text, !.todo = split(text, "\n")]]
    /\ UNCHANGED <<pc, lrcContent, threw, lines, currentTime, current, activeIndex,
                   calls, loop, result, host, shown>>

ParseStep ==
  \E k \in Parsers :
    /\ invocations[k].state = "running"
    /\ invocations' = parseIteration(invocations, k)
    /\ UNCHANGED <<pc, lrcContent, threw, lines, currentTime, current, activeIndex,
                   calls, loop, result, host, shown>>

NextInterleaved ==
  Produce \/ BeginQuery \/ QueryStep \/ BeginParse \/ ParseStep \/ Reset

\* invocations of the two functions interleaved iteration by iteration
SpecInterleaved == Init /\ [][NextInterleaved]_vars

\* a ?? b: b only when a is undefined or null
orElse(a, b) == IF a.present THEN a ELSE b

\* if (s): a string is truthy unless it is undefined, null or empty
truthyString(s) == s.present /\ s.str # <<>>

\* const content = initialContent ?? fetchedContent ?? ''
content(h) == orElse(h.initialContent, orElse(h.fetchedContent, given(<<>>))).str

\* continueRender(handle)
continueRender(h) == [h EXCEPT !.handle = "released"]

\* the body of useEffect
useEffect(h) ==
  IF truthyString(h.initialContent)
  THEN continueRender([h EXCEPT !.effect = "ran"])
  ELSE IF truthyString(h.lrcSrc)
       THEN [h EXCEPT !.effect = "ran", !.fetch = "pending"]
       ELSE continueRender([h EXCEPT !.effect = "ran"])

\* .then((text) => { setFetchedContent(text); continueRender(handle); })
onFulfilled(h, text) ==
  continueRender([h EXCEPT !.fetch = "resolved", !.fetchedContent = given(text)])

\* a catch handler that only logs the error
onRejected_silent(h) == [h EXCEPT !.fetch = "rejected"]

\* .catch((err) => { console.error(...); continueRender(handle); })
onRejected(h) == continueRender([h EXCEPT !.fetch = "rejected"])

\* the prop lrcContent: left out, empty, or a text
InlineContents == {absent} \cup {given(text) : text \in CallTexts}

\* the prop lrcSrc: left out, empty, or the address of a file
Sources == {absent, given(<<>>), given(<<"a", ".", "l", "r", "c">>)}

\* the first render: useState(() => delayRender()), useState(null), and the
\* lines memo
Mount ==
  \E ic \in InlineContents, src \in Sources :
    /\ pc = "idle"
    /\ pc' = "parsed"
    /\ host' = [NoHost EXCEPT !.mounted = TRUE, !.initialContent = ic,
                              !.lrcSrc = src, !.handle = "blocked",
                              !.effect = "pending"]
    /\ lrcContent' = content(host')
    /\ threw' = parseLrc(content(host')).threw
    /\ lines' = parseLrc(content(host')).value
    /\ UNCHANGED <<currentTime, current, activeIndex, calls, loop, result, invocations, shown>>

\* the effect runs after the first render
RunEffect ==
  /\ host.effect = "pending"
  /\ host' = useEffect(host)
  /\ UNCHANGED <<pc, lrcContent, threw, lines, currentTime, current, activeIndex,
                 calls, loop, result, invocations, shown>>

\* the fetch started by the effect settles: fetch(lrcSrc) and res.text()
\* resolve with a text, or one of them rejects
FetchSettles ==
  /\ host.fetch = "pending"
  /\ host' \in {onRejected(host)} \cup {onFulfilled(host, text) : text \in CallTexts}

\* the fetch resolves; the state update renders the component again, which
\* recomputes the memos lines and activeIndex
FetchResolve ==
  /\ FetchSettles
  /\ host'.fetch = "resolved"
  /\ lrcContent' = content(host')
  /\ threw' = parseLrc(content(host')).threw
  /\ lines' = parseLrc(content(host')).value
  /\ activeIndex' = IF pc = "rendered"
                      THEN activeIndexOf(parseLrc(content(host')).value, currentTime)
                      ELSE activeIndex
  /\ UNCHANGED <<pc, currentTime, current, calls, loop, result, invocations, shown>>

\* the fetch, or the reading of its body, rejects
FetchReject ==
  /\ FetchSettles
  /\ host'.fetch = "rejected"
  /\ UNCHANGED <<pc, lrcContent, threw, lines, currentTime, current, activeIndex,
                 calls, loop, result, invocations, shown>>

\* the component is unmounted after its effect and its fetch are over
Unmount == host.effect = "ran" /\ host.fetch # "pending" /\ Reset

NextMount == Mount \/ RunEffect \/ FetchResolve \/ FetchReject \/ Render \/ Unmount

\* the life of a mounted LyricVideo; React runs the effect of a mounted
\* component, and the fetch is taken to settle
SpecMount ==
  /\ Init
  /\ [][NextMount]_vars
  /\ WF_vars(RunEffect) /\ WF_host(FetchSettles)

\* lines of the texts played back: a line of text, an empty marker 200 ms
\* after it, a text that is cut at once, and the special intro
PlaybackLines ==
  { <<"[", "0", "0", ":", "0", "5", "]", "a">>   \* "[00:05]a"
  , <<"[", "0", "0", ":", "0", "5", ".", "2", "0", "]">>   \* "[00:05.20]"
  , <<"[", "0", "0", ":", "0", "7", "]", "su", "be", "te">>   \* "[00:07]すべて"
  , <<"[", "0", "0", ":", "0", "1", "]", "ze", "ro", "i", "chi">>   \* "[00:01]ゼロイチ"
  }

PlaybackTexts == {join(ls, <<"\n">>) : ls \in SeqsUpTo(PlaybackLines, MaxLines)}

\* the instants of the frames: those of QueryTimes, and the neighbourhood of
\* the end of every fade and of every fallback window
FrameTimes(ls) ==
  QueryTimes(ls) \cup
  {ls[i].lineTime + w + d :
     i \in DOMAIN ls, w \in {FadeMillis, FallbackMillis}, d \in -MaxSlack..MaxSlack}

\* the host parses the text it plays back
Load ==
  \E text \in PlaybackTexts :
    /\ pc = "idle"
    /\ pc' = "parsed"
    /\ lrcContent' = text
    /\ threw' = parseLrc(text).threw
    /\ lines' = parseLrc(text).value
    /\ UNCHANGED <<currentTime, current, activeIndex, calls, loop, result,
                   invocations, host, shown>>

\* the host renders the frame at time t: currentTime, the activeIndex memo,
\* and lines.map
Frame ==
  \E t \in FrameTimes(lines) :
    /\ pc \in {"parsed", "framed"}
    /\ ~threw
    /\ pc' = "framed"
    /\ currentTime' = t
    /\ activeIndex' = activeIndexOf(lines, t)
    /\ shown' = mapLines(lines, activeIndexOf(lines, t), t)
    /\ UNCHANGED <<lrcContent, threw, lines, current, calls, loop, result,
                   invocations, host>>

NextPlayback == Load \/ Frame \/ Query \/ Reset

\* a text played back: frames rendered, and getCurrentLine asked, at any times
SpecPlayback == Init /\ [][NextPlayback]_vars

\* ------------------------------------------------------------------- claims
\* the start times not exceeding t
Started(ls, t) == {i \in DOMAIN ls : ls[i].lineTime <= t}

\* C1: over the sorted sequence, getCurrentLine returns an element whose start
\* time is the greatest start time that does not exceed the query time.
C1_GreatestStartNotExceeding ==
  (pc = "queried" /\ Started(lines, currentTime) # {}) =>
    /\ current \in DOMAIN lines
    /\ lines[current].lineTime <= currentTime
    /\ \A j \in Started(lines, currentTime) :
         lines[j].lineTime <= lines[current].lineTime

\* three lines with distinct start times, asked about an instant strictly
\* inside the window of the middle one
C1_Witness ==
  /\ pc = "queried"
  /\ Len(lines) = 3
  /\ lines[1].lineTime < lines[2].lineTime
  /\ lines[2].lineTime < currentTime
  /\ currentTime < lines[3].lineTime
  /\ current = 2

\* C2: whatever the order of the timestamps in the text, the sequence
\* parseLrc returns is ascending in lineTime.
C2_SortedAscending ==
  pc = "parsed" =>
    \A i \in 1..(Len(lines) - 1) : lines[i].lineTime <= lines[i + 1].lineTime

DescendingText ==
  <<"[", "0", "0", ":", "1", "5", "]", "d", "\n", "[", "0", "0", ":", "1", "0", "]", "c", "\n", "[", "0", "0", ":", "0", "5", "]", "a">>

\* the text with its timestamps in descending order has been parsed
C2_Witness ==
  /\ pc = "parsed"
  /\ lrcContent = DescendingText
  /\ Len(lines) = 3
  /\ lines[1].lineTime < lines[3].lineTime

\* C3: getCurrentLine returns null exactly when no line has a start time
\* that does not exceed the query time (empty sequence, or a time before
\* every line), and null only then.
C3_NullIffNoneStarted ==
  pc = "queried" => (current = null <=> Started(lines, currentTime) = {})

\* a non-empty sequence asked about an instant before its first line
C3_Witness ==
  /\ pc = "queried"
  /\ lines # <<>>
  /\ currentTime < lines[1].lineTime
  /\ current = null

\* C4: among lines that share the greatest start time not exceeding the
\* query time, getCurrentLine returns the one with the largest index.
C4_LastAmongEqual ==
  (pc = "queried" /\ current # null) =>
    \A j \in DOMAIN lines :
      lines[j].lineTime = lines[current].lineTime => j <= current

\* the line returned has an earlier line with the same start time
C4_Witness ==
  /\ pc = "queried"
  /\ current # null
  /\ \E j \in 1..(current - 1) : lines[j].lineTime = lines[current].lineTime

\* the positions of a text at which a timestamp tag begins
TagStarts(text) == {i \in 1..Len(text) : timeRegexAt(text, i) > 0}

\* the number of newline characters before position i: the line i lies on
LineOf(text, i) == Cardinality({j \in 1..(i - 1) : text[j] = "\n"})

\* the lines of a text, counted by newlines alone, that hold a tag
TaggedLines(text) == {LineOf(text, i) : i \in TagStarts(text)}

\* C5: the text is split at newline characters only, and every line gives one
\* record if it holds a recognizable tag and none otherwise: the result has
\* as many records as the text has lines with a tag.
C5_OneRecordPerTaggedLine ==
  pc = "parsed" => Len(lines) = Cardinality(TaggedLines(lrcContent))

\* a text with a line without a tag and a line with two tags around a
\* carriage return
C5_Witness ==
  /\ pc = "parsed"
  /\ Cardinality(TagStarts(lrcContent)) > Cardinality(TaggedLines(lrcContent))
  /\ \E i \in 1..Len(lrcContent) : lrcContent[i] = "\r"
  /\ \E n \in 0..LineOf(lrcContent, Len(lrcContent)) : n \notin TaggedLines(lrcContent)
  /\ Len(lines) >= 1

\* C6: parseLrc raises no exception on any text, and returns the empty
\* sequence for the empty text.
C6_NeverThrows ==
  pc # "idle" => (~threw /\ (lrcContent = <<>> => lines = <<>>))

\* the empty text has been parsed
C6_Witness ==
  /\ pc = "parsed"
  /\ lrcContent = <<>>
  /\ lines = <<>>
  /\ ~threw

\* the start time, in milliseconds, that the tag beginning at position i
\* stands for: MM*60 + SS and the fraction .ff or .fff
TagMillis(text, i) ==
  LET n == timeRegexAt(text, i)
      d(k) == DigitVal(text[i + k])
  IN  (10 * d(1) + d(2)) * 60000 + (10 * d(4) + d(5)) * 1000
      + (IF n >= 10 THEN 100 * d(7) + 10 * d(8) ELSE 0)
      + (IF n = 11 THEN d(9) ELSE 0)

\* the first tag of each tagged line
FirstTags(text) ==
  {i \in TagStarts(text) :
     \A j \in TagStarts(text) : LineOf(text, j) = LineOf(text, i) => i <= j}

\* C7: the start time of a record is MM*60 + SS plus the fraction of the
\* tag of its line, a two-digit fraction counting as hundredths: the start
\* times of the records are, with multiplicity, the values of the first tags.
C7_StartTimeOfTag ==
  pc = "parsed" =>
    /\ \A k \in DOMAIN lines :
         \E i \in FirstTags(lrcContent) : lines[k].lineTime = TagMillis(lrcContent, i)
    /\ \A i \in FirstTags(lrcContent) :
         Cardinality({k \in DOMAIN lines : lines[k].lineTime = TagMillis(lrcContent, i)})
           = Cardinality({j \in FirstTags(lrcContent) :
                            TagMillis(lrcContent, j) = TagMillis(lrcContent, i)})

\* [01:02.50] has been parsed to 62.5 seconds
C7_Witness ==
  /\ pc = "parsed"
  /\ lrcContent = <<"[", "0", "1", ":", "0", "2", ".", "5", "0", "]">>
  /\ Len(lines) = 1
  /\ lines[1].lineTime = 62500

\* a bracketed tag of the form [dd:dd], [dd:dd.dd] or [dd:dd.ddd]
IsTagForm(sub) ==
  /\ Len(sub) \in {7, 10, 11}
  /\ sub[1] = "[" /\ sub[Len(sub)] = "]"
  /\ sub[2] \in Digits /\ sub[3] \in Digits
  /\ sub[4] = ":"
  /\ sub[5] \in Digits /\ sub[6] \in Digits
  /\ Len(sub) > 7 =>
       (sub[7] = "." /\ \A k \in 8..(Len(sub) - 1) : sub[k] \in Digits)

HasTagForm(text) ==
  \E i \in 1..Len(text) : \E j \in i..Len(text) : IsTagForm(SubSeq(text, i, j))

\* C8: a record is produced only for a text holding a tag of two minute
\* digits, a colon, two second digits and optionally a dot and two or three
\* digits, in brackets; a text whose tags all deviate gives no record.
C8_OnlyWellFormedTags ==
  pc = "parsed" => (lines # <<>> => HasTagForm(lrcContent))

\* the tag with a one-digit fraction has been parsed and dropped
C8_Witness ==
  /\ pc = "parsed"
  /\ lrcContent = <<"[", "0", "0", ":", "1", "0", ".", "5", "]">>
  /\ lines = <<>>

\* the text [00:05]{k:<value>} of the state, if it is one
IsValueText(v) == lrcContent = TimeTag \o <<"{", "k", ":">> \o v \o <<"}">>

\* what the parsed record holds under the key k
StoredK == lines[1].style.map[<<"k">>]

\* the whole of v is a decimal number: an optional sign, then Infinity, or
\* digits with an optional fraction (or a fraction alone) and an optional
\* exponent, and nothing after it
IsWholeNumber(v) ==
  LET p    == IF charAt(v, 1) \in {"+", "-"} THEN 2 ELSE 1
      n1   == digitRun(v, p)
      dot  == charAt(v, p + n1) = "."
      n2   == IF dot THEN digitRun(v, p + n1 + 1) ELSE 0
      q    == p + n1 + (IF dot THEN 1 + n2 ELSE 0)
      ep   == IF charAt(v, q + 1) \in {"+", "-"} THEN q + 2 ELSE q + 1
      en   == digitRun(v, ep)
  IN  \/ SubSeq(v, p, Len(v)) = <<"I", "n", "f", "i", "n", "i", "t", "y">>
      \/ /\ n1 + n2 > 0
         /\ \/ q = Len(v) + 1
            \/ charAt(v, q) \in {"e", "E"} /\ en > 0 /\ ep + en = Len(v) + 1

\* C9: a value is stored as a number exactly when the whole trimmed value is
\* a valid number, and every other value, partly numeric ones included, is
\* stored as the trimmed string verbatim (values without a colon).
C9_NumberIffWholeValue ==
  \A v \in StyleValues :
    (pc # "idle" /\ IsValueText(v) /\ indexOf(v, ":", 1) = 0) =>
      /\ <<"k">> \in DOMAIN lines[1].style.map
      /\ StoredK.type = "number" <=> IsWholeNumber(trim(v))
      /\ StoredK.type = "string" => StoredK.str = trim(v)

\* C10: the value of a pair is the whole trimmed text after the first colon
\* of its segment, further colons included: it is stored as that string, or
\* as the number that string reads as.
C10_ValueAfterFirstColon ==
  \A v \in StyleValues :
    (pc # "idle" /\ IsValueText(v)) =>
      /\ <<"k">> \in DOMAIN lines[1].style.map
      /\ StoredK.type = "string" => StoredK.str = trim(v)
      /\ StoredK.type = "number" => StoredK.num = parseFloat(trim(v))

\* --------------------------------------------- claims on annotation and text
SetMin(S) == CHOOSE x \in S : \A y \in S : x <= y

SetMax(S) == CHOOSE x \in S : \A y \in S : y <= x

\* s without its leading and trailing white space
Stripped(s) ==
  LET nw == {i \in 1..Len(s) : ~IsWhite(s[i])} IN
  IF nw = {} THEN <<>> ELSE SubSeq(s, SetMin(nw), SetMax(nw))

\* s without the positions a..b
Without(s, a, b) == SubSeq(s, 1, a - 1) \o SubSeq(s, b + 1, Len(s))

\* a text of one line that holds a timestamp tag
IsSingleTagged(text) ==
  /\ \A i \in 1..Len(text) : text[i] # "\n"
  /\ TagStarts(text) # {}

\* the line with its first tag removed
Remainder(text) ==
  LET i == SetMin(TagStarts(text)) IN
  Without(text, i, i + timeRegexAt(text, i) - 1)

\* the opening braces of r that are closed before the line breaks
AnnotationOpens(r) ==
  {i \in 1..Len(r) :
     /\ r[i] = "{"
     /\ \E j \in (i + 1)..Len(r) :
          r[j] = "}" /\ \A k \in (i + 1)..(j - 1) : ~IsLineTerminator(r[k])}

HasAnnotation(r) == AnnotationOpens(r) # {}

AnnotationOpen(r) == SetMin(AnnotationOpens(r))

AnnotationClose(r) ==
  SetMin({j \in (AnnotationOpen(r) + 1)..Len(r) : r[j] = "}"})

\* the text between the braces of the annotation
AnnotationContent(r) == SubSeq(r, AnnotationOpen(r) + 1, AnnotationClose(r) - 1)

\* the remainder without its annotation, and without white space around it
ExpectedText(text) ==
  LET r == Remainder(text) IN
  IF HasAnnotation(r)
  THEN Stripped(Without(r, AnnotationOpen(r), AnnotationClose(r)))
  ELSE Stripped(r)

\* the segments of the annotation of a one-line tagged text
SegmentsOf(text) == split(AnnotationContent(Remainder(text)), ",")

\* the key of a segment: what precedes its first colon
SegKey(seg) ==
  LET c == indexOf(seg, ":", 1) IN
  Stripped(IF c = 0 THEN seg ELSE SubSeq(seg, 1, c - 1))

\* the value of a segment as the code takes it: what lies between its first
\* colon and the next
SegVal(seg) ==
  LET c == indexOf(seg, ":", 1)
      d == indexOf(seg, ":", c + 1)
  IN  Stripped(SubSeq(seg, c + 1, IF d = 0 THEN Len(seg) ELSE d - 1))

\* a segment with a colon, a key and a value
WellFormed(seg) ==
  /\ indexOf(seg, ":", 1) > 0
  /\ SegKey(seg) # <<>>
  /\ SegVal(seg) # <<>>

\* a one-line tagged text with an annotation has been parsed
AnnotatedParsed ==
  /\ pc = "parsed"
  /\ IsSingleTagged(lrcContent)
  /\ HasAnnotation(Remainder(lrcContent))

\* C11: a segment without colon, key or value adds no key and raises no
\* error, and the well-formed pairs of the annotation are stored as they
\* would be without it.
C11_MalformedPairDropped ==
  AnnotatedParsed =>
    LET good == SelectSeq(SegmentsOf(lrcContent), WellFormed) IN
    /\ ~threw
    /\ Len(lines) = 1
    /\ lines[1].style.present
    /\ DOMAIN lines[1].style.map = {SegKey(good[i]) : i \in DOMAIN good}
    /\ lines[1].style.map = parseStyle(join(good, <<",">>)).map

\* an annotation with a malformed and a well-formed segment, one key stored
C11_Witness ==
  /\ AnnotatedParsed
  /\ \E i, j \in DOMAIN SegmentsOf(lrcContent) :
       /\ ~WellFormed(SegmentsOf(lrcContent)[i])
       /\ SegKey(SegmentsOf(lrcContent)[i]) # <<>>
       /\ WellFormed(SegmentsOf(lrcContent)[j])
       /\ SegKey(SegmentsOf(lrcContent)[j]) # SegKey(SegmentsOf(lrcContent)[i])
  /\ Cardinality(DOMAIN lines[1].style.map) = 1

\* the well-formed segments of the annotation that carry the key
Occurrences(text, key) ==
  {i \in DOMAIN SegmentsOf(text) :
     WellFormed(SegmentsOf(text)[i]) /\ SegKey(SegmentsOf(text)[i]) = key}

\* C12: keys are compared case-sensitively, and a key that occurs several
\* times holds the value of its last occurrence.
C12_LastDuplicateWins ==
  AnnotatedParsed =>
    /\ \A i \in DOMAIN SegmentsOf(lrcContent) :
         WellFormed(SegmentsOf(lrcContent)[i]) =>
           SegKey(SegmentsOf(lrcContent)[i]) \in DOMAIN lines[1].style.map
    /\ \A key \in DOMAIN lines[1].style.map :
         /\ Occurrences(lrcContent, key) # {}
         /\ lines[1].style.map[key] =
              coerce(SegVal(SegmentsOf(lrcContent)[SetMax(Occurrences(lrcContent, key))]))

\* a key given twice with different values, the second one stored
C12_Witness ==
  /\ AnnotatedParsed
  /\ \E key \in DOMAIN lines[1].style.map :
       /\ Cardinality(Occurrences(lrcContent, key)) = 2
       /\ coerce(SegVal(SegmentsOf(lrcContent)[SetMin(Occurrences(lrcContent, key))]))
            # lines[1].style.map[key]

EmptyMarkerText ==
  <<"[", "0", "0", ":", "1", "0", ".", "0", "0", "0", "]">>

\* C13: a tagged line whose text is empty once tag and annotation are removed
\* still gives a record, with empty text, its start time, and its style if
\* an annotation is present; [00:10.000] gives 10.0, "" and no style.
C13_EmptyTextKept ==
  (pc = "parsed" /\ IsSingleTagged(lrcContent) /\ ExpectedText(lrcContent) = <<>>) =>
    /\ Len(lines) = 1
    /\ lines[1].text = <<>>
    /\ lines[1].lineTime = TagMillis(lrcContent, SetMin(TagStarts(lrcContent)))
    /\ lines[1].style.present <=> HasAnnotation(Remainder(lrcContent))
    /\ lrcContent = EmptyMarkerText =>
         lines = <<[lineTime |-> 10000, text |-> <<>>, style |-> undefined]>>

\* the line [00:10.000] has been parsed to a record
C13_Witness ==
  /\ pc = "parsed"
  /\ lrcContent = EmptyMarkerText
  /\ Len(lines) = 1
  /\ lines[1].text = <<>>

\* C14: the text of a record is its line without the timestamp tag and
\* without the annotation, braces included, and has no white space at either
\* end.
C14_TextWithoutTagAndAnnotation ==
  (pc = "parsed" /\ IsSingleTagged(lrcContent)) =>
    /\ Len(lines) = 1
    /\ lines[1].text = ExpectedText(lrcContent)
    /\ lines[1].text # <<>> =>
         (~IsWhite(lines[1].text[1]) /\ ~IsWhite(lines[1].text[Len(lines[1].text)]))

\* text, white space and an annotation after the tag: the text is left bare
C14_Witness ==
  /\ pc = "parsed"
  /\ IsSingleTagged(lrcContent)
  /\ HasAnnotation(Remainder(lrcContent))
  /\ Len(Stripped(Remainder(lrcContent))) > Len(lines[1].text) + 2
  /\ IsWhite(charAt(Remainder(lrcContent), AnnotationOpen(Remainder(lrcContent)) - 1))
  /\ lines[1].text # <<>>

\* ------------------------------------------------------ claims on the host
\* the indices the host considers for display: the active line and the one
\* before it
DisplayWindow == {i \in {activeIndex - 1, activeIndex} : i >= 0 /\ i < Len(lines)}

\* C15: the window of a displayed line ends at the start time of the next
\* line if there is one and 3 seconds after its own start otherwise; so the
\* active line has started, and its successor, if any, has not.
C15_WindowEnd ==
  pc = "rendered" =>
    /\ \A i \in DisplayWindow :
         endTime(lines, i) = IF i + 2 <= Len(lines)
                               THEN lines[i + 2].lineTime
                               ELSE lines[i + 1].lineTime + 3000
    /\ activeIndex >= 0 =>
         /\ at(lines, activeIndex).lineTime <= currentTime
         /\ activeIndex + 1 < Len(lines) => currentTime < endTime(lines, activeIndex)

\* a frame exactly at the start time of a line that has a successor
C15_Witness ==
  /\ pc = "rendered"
  /\ activeIndex >= 0
  /\ activeIndex + 1 < Len(lines)
  /\ currentTime = at(lines, activeIndex).lineTime
  /\ currentTime < at(lines, activeIndex + 1).lineTime

\* C16: the host's forward scan agrees with getCurrentLine: activeIndex is -1
\* exactly when getCurrentLine returns null, and otherwise lines[activeIndex]
\* is the record getCurrentLine returns.
C16_ScanEquivalent ==
  pc = "rendered" =>
    /\ activeIndex = -1 <=> getCurrentLine(lines, currentTime) = null
    /\ activeIndex # -1 => activeIndex + 1 = getCurrentLine(lines, currentTime)

\* a frame whose active line shares its start time with the line before it
C16_Witness ==
  /\ pc = "rendered"
  /\ activeIndex >= 1
  /\ at(lines, activeIndex - 1).lineTime = at(lines, activeIndex).lineTime

C18_ResultsUnchanged ==
  \A k \in DOMAIN calls : calls[k].now = calls[k].returned

\* getCurrentLine has run on the array of the first of two calls, after the
\* second call returned another sequence
C18_Witness ==
  /\ pc = "queried"
  /\ Len(calls) = 2
  /\ lines = calls[1].now
  /\ calls[1].returned # <<>>
  /\ calls[2].returned # <<>>
  /\ calls[1].returned # calls[2].returned
  /\ current # null

\* C19: every record parseLrc returns has a start time that is not negative.
C19_StartTimeNonNegative ==
  pc # "idle" => \A k \in DOMAIN lines : lines[k].lineTime >= 0

\* the tag [00:00] has been parsed to the start time 0
C19_Witness ==
  /\ pc = "parsed"
  /\ lines # <<>>
  /\ lines[1].lineTime = 0

\* ------------------------------------------------------ claims on the loops
\* the lines of a text: one more than its newline characters
NumLines(text) == 1 + Cardinality({i \in 1..Len(text) : text[i] = "\n"})

\* the commas of a string
Commas(str) == Cardinality({i \in 1..Len(str) : str[i] = ","})

\* the segments of the annotation of a line, none without tag or annotation
SegmentCount(line) ==
  IF TagStarts(line) # {} /\ HasAnnotation(Remainder(line))
  THEN 1 + Commas(AnnotationContent(Remainder(line)))
  ELSE 0

RECURSIVE TotalSegments(_)
TotalSegments(ls) ==
  IF ls = <<>> THEN 0 ELSE SegmentCount(Head(ls)) + TotalSegments(Tail(ls))

\* every line is processed once and every segment once; the scan inspects
\* every element at most once
LoopsBounded ==
  /\ pc = "parsing" =>
       /\ loop.lineIters + Len(loop.todo) = NumLines(lrcContent)
       /\ result.segIters <= TotalSegments(split(lrcContent, "\n"))
  /\ pc \in {"parsed", "scanning", "queried"} =>
       /\ loop.lineIters = NumLines(lrcContent)
       /\ result.segIters = TotalSegments(split(lrcContent, "\n"))
  /\ pc = "scanning" => loop.scanIters = Len(lines) - 1 - loop.i
  /\ pc \in {"scanning", "queried"} => loop.scanIters <= Len(lines)

\* C20: parseLrc and getCurrentLine terminate: every call that started
\* returns, parseLrc having processed each line and each style segment once
\* and getCurrentLine having inspected each element at most once.
C20_Terminates ==
  /\ []LoopsBounded
  /\ (pc = "parsing") ~> (pc = "parsed")
  /\ (pc = "scanning") ~> (pc = "queried")

\* a parse of three lines with two style segments, and a scan that inspected
\* every element before it returned
C20_Witness ==
  /\ pc = "queried"
  /\ loop.lineIters = 3
  /\ result.segIters = 2
  /\ Len(lines) >= 2
  /\ loop.scanIters = Len(lines)

\* ------------------------------------------------- claims on interleavings
\* C21: however the iterations of concurrent invocations interleave, every
\* query of the shared sequence returns what getCurrentLine returns when run
\* alone, and every call of parseLrc on another text returns what it returns
\* when run alone.
C21_InterleavingTransparent ==
  /\ \A k \in Queries :
       invocations[k].state = "returned" =>
         invocations[k].found = getCurrentLine(lines, invocations[k].t)
  /\ \A k \in Parsers :
       invocations[k].state = "returned" =>
         invocations[k].returned = parseLrc(invocations[k].text).value

\* a query has returned a line while the other query, asked about another
\* time, is in the middle of its scan and a call of parseLrc is in the middle
\* of its loop
C21_Witness ==
  /\ invocations["q1"].state = "returned"
  /\ invocations["q1"].found # null
  /\ invocations["q2"].state = "running"
  /\ invocations["q2"].i < Len(lines) - 1
  /\ invocations["q2"].t # invocations["q1"].t
  /\ invocations["p1"].state = "running"
  /\ invocations["p1"].acc.result # <<>>
  /\ invocations["p1"].todo # <<>>

\* ------------------------------------------------- claims on the mounting
\* C22: when the inline text is absent or empty and lrcSrc is given, the
\* effect starts a fetch, and once the fetch has succeeded the lines rendered
\* are parseLrc of the fetched text.
C22_FetchedLinesUsed ==
  (/\ host.mounted /\ host.effect = "ran"
   /\ ~truthyString(host.initialContent)
   /\ truthyString(host.lrcSrc)) =>
    /\ host.fetch # "none"
    /\ host.fetch = "resolved" =>
         lines = parseLrc(host.fetchedContent.str).value

\* C23: the handle of delayRender is released with continueRender in every
\* case, the fetch being taken to settle.
C23_HandleReleased ==
  (host.handle = "blocked") ~> (host.handle = "released")

\* the handle released after the fetch rejected
C23_Witness ==
  /\ host.fetch = "rejected"
  /\ host.handle = "released"

\* ------------------------------------------------- claims on the playback
\* C24: from one frame to the next at an equal or later time, the active
\* index does not decrease; from one query to the next at an equal or later
\* time, the start time of the line getCurrentLine returns does not decrease
\* (and a line once found, a line is found).
C24_NeverDecreases ==
  [][(currentTime' >= currentTime /\ lines' = lines) =>
       /\ (pc = "framed" /\ pc' = "framed") => activeIndex' >= activeIndex
       /\ (pc = "queried" /\ pc' = "queried" /\ current # null) =>
            /\ current' # null
            /\ lines[current'].lineTime >= lines[current].lineTime]_vars

\* a frame in which a line between the first and the last is active
C24_Witness ==
  /\ pc = "framed"
  /\ activeIndex >= 1
  /\ activeIndex < Len(lines) - 1
  /\ at(lines, activeIndex - 1).lineTime < at(lines, activeIndex).lineTime

\* the records of the lines an element was returned for in the frame
Rendered == {r \in shown : r.rendered}

\* C25: a frame renders a line only if its index is the active index or the
\* one before it and its text is not empty; while no line is active
\* (activeIndex -1) it renders none.
C25_OnlyWindowRendered ==
  pc = "framed" =>
    /\ \A r \in Rendered :
         /\ r.index \in {activeIndex, activeIndex - 1}
         /\ r.index >= 0 /\ r.index < Len(lines)
         /\ at(lines, r.index).text # <<>>
    /\ activeIndex = -1 => Rendered = {}

\* a frame that renders the active line and the fading line before it, a
\* third line, with text, lying before them
C25_Witness ==
  /\ pc = "framed"
  /\ activeIndex = 2
  /\ {r.index : r \in Rendered} = {1, 2}
  /\ at(lines, 0).text # <<>>

\* ------------------------------------------------ claims on the style field
\* C26: the style of a record is absent exactly when the line, its tag
\* removed, holds no annotation; an annotation that is empty or holds only
\* malformed pairs gives a style that is present and empty, which differs
\* from the absent style.
C26_StyleAbsentIffNoAnnotation ==
  (pc = "parsed" /\ IsSingleTagged(lrcContent)) =>
    /\ Len(lines) = 1
    /\ lines[1].style.present <=> HasAnnotation(Remainder(lrcContent))
    /\ ~HasAnnotation(Remainder(lrcContent)) => lines[1].style = undefined
    /\ (/\ HasAnnotation(Remainder(lrcContent))
        /\ SelectSeq(SegmentsOf(lrcContent), WellFormed) = <<>>) =>
         /\ lines[1].style.present
         /\ DOMAIN lines[1].style.map = {}
         /\ lines[1].style # undefined

\* a line whose annotation holds one segment, without a colon
C26_Witness ==
  /\ pc = "parsed"
  /\ IsSingleTagged(lrcContent)
  /\ HasAnnotation(Remainder(lrcContent))
  /\ Len(SegmentsOf(lrcContent)) = 1
  /\ SegmentsOf(lrcContent)[1] # <<>>
  /\ indexOf(SegmentsOf(lrcContent)[1], ":", 1) = 0
  /\ lines[1].style = emptyStyle

\* ------------------------------------------- claims on equal start times
RECURSIVE RecordsOf(_)
\* the records of the lines ls, each line parsed on its own, in the order of
\* the lines
RecordsOf(ls) ==
  IF ls = <<>> THEN <<>>
  ELSE parseLrc(Head(ls)).value \o RecordsOf(Tail(ls))

RECURSIVE WithTime(_, _)
\* the records of recs that start at time T, in their order in recs
WithTime(recs, T) ==
  IF recs = <<>> THEN <<>>
  ELSE (IF Head(recs).lineTime = T THEN <<Head(recs)>> ELSE <<>>)
         \o WithTime(Tail(recs), T)

\* C27: the records of one start time stand in the output in the order of
\* their lines in the text, and getCurrentLine, when it returns a record of a
\* start time that several lines share, returns that of the last such line of
\* the text.
C27_EqualTimesKeepTextOrder ==
  pc \in {"parsed", "queried"} =>
    LET recs == RecordsOf(split(lrcContent, "\n")) IN
    /\ \A k \in DOMAIN lines :
         WithTime(lines, lines[k].lineTime) = WithTime(recs, lines[k].lineTime)
    /\ (pc = "queried" /\ current # null) =>
         LET same == WithTime(recs, lines[current].lineTime) IN
         lines[current] = same[Len(same)]

\* getCurrentLine returned a record whose start time an earlier line of the
\* text, with another text, shares
C27_Witness ==
  /\ pc = "queried"
  /\ current # null
  /\ current >= 2
  /\ lines[current - 1].lineTime = lines[current].lineTime
  /\ lines[current - 1].text # lines[current].text

\* ------------------------------------------- claims on the relative times
\* C28: the relative times of a frame are not negative: timeSinceStart of the
\* active line, and timeSinceEnd of the line before it, for every line an
\* animation is computed for.
C28_RelativeTimesNonNegative ==
  pc = "framed" =>
    \A r \in shown :
      /\ r.isCurrent <=> r.index = activeIndex
      /\ r.isCurrent =>
           /\ r.timeSinceStart = currentTime - lines[r.index + 1].lineTime
           /\ r.timeSinceStart >= 0
      /\ ~r.isCurrent =>
           /\ r.index = activeIndex - 1
           /\ r.timeSinceEnd = currentTime - lines[r.index + 2].lineTime
           /\ r.timeSinceEnd >= 0

\* the frame at the very start of a line: both relative times are zero
C28_Witness ==
  /\ pc = "framed"
  /\ \E r \in shown : r.isCurrent /\ r.timeSinceStart = 0
  /\ \E r \in shown : ~r.isCurrent /\ r.timeSinceEnd = 0

\* C29: at every time from the start of the last line on, the last line is
\* the active line, also past the 3 seconds of its fallback window; and
\* getCurrentLine returns it.
C29_LastLineStaysActive ==
  (lines # <<>> /\ currentTime >= lines[Len(lines)].lineTime) =>
    /\ pc = "framed" => activeIndex = Len(lines) - 1
    /\ pc = "queried" => current = Len(lines)

\* a frame past the end of the fallback window of the last of several lines
C29_Witness ==
  /\ pc = "framed"
  /\ Len(lines) >= 2
  /\ currentTime >= lines[Len(lines)].lineTime + FallbackMillis
  /\ activeIndex = Len(lines) - 1

\* C30: a line that is not the active one is rendered only while less than
\* 0.5 seconds have passed since the start of the line that replaced it; from
\* 0.5 seconds on its opacity is at most 0 and no element is returned for it.
C30_FadedOutAfterHalfSecond ==
  pc = "framed" =>
    /\ \A r \in Rendered :
         r.index # activeIndex =>
           currentTime - at(lines, r.index + 1).lineTime < 500
    /\ \A r \in shown :
         (~r.isCurrent /\ currentTime - at(lines, r.index + 1).lineTime >= 500) =>
           /\ r.animOpacity <= 0
           /\ ~r.rendered

\* the line before the active one exactly 0.5 seconds after it was replaced,
\* and a frame earlier in which it is still rendered
C30_Witness ==
  /\ pc = "framed"
  /\ \E r \in shown :
       /\ ~r.isCurrent
       /\ r.timeSinceEnd = 500
       /\ ~isInstantCut(at(lines, r.index).text)
       /\ lineElement(lines, r.index, activeIndex, currentTime - 1).rendered

====
